---------------------------- MODULE Spec2Model ----------------------------
(***************************************************************************)
(* Model of the portfolio analyzer of src/main.py (class PortfolioAnalyzer) *)
(*                                                                         *)
(* Representation.                                                         *)
(*  - A Python str is a sequence of one-character strings, so that strip(),*)
(*    lower() and float() are computed character by character.             *)
(*  - A Python float is an exact rational <<n, d>> with d > 0 in lowest     *)
(*    terms; the decimal literals of the inputs are exactly representable. *)
(*    Rounding of binary floating point is not modelled.                   *)
(*  - A Python dict is an insertion-ordered sequence of <<key, value>>      *)
(*    pairs with distinct keys; a list is a sequence.                      *)
(*  - None and the empty list are both the empty sequence: the code only   *)
(*    ever tests their truthiness.                                         *)
(*  - A raised exception is a one-element tuple holding its name.          *)
(***************************************************************************)
EXTENDS Integers, Sequences, FiniteSets, TLC

VARIABLES
    csv_file,          \* the rows csv.reader yields for self.csv_file
    current_prices,    \* self.current_prices : dict symbol -> float
    sections,          \* self.sections
    trades_by_symbol,  \* self.trades_by_symbol
    realized_summary,  \* self.realized_summary
    deposits,          \* self.deposits
    asset_metrics,     \* self.asset_metrics
    pc,                \* position of the running method
    rows,              \* argument `rows` of the running section extractor
    i,                 \* position of `for row in rows` (1-based)
    header,            \* local `header` of the running section extractor
    out,               \* local `trades` / `summary` / `deposits` being built
    sym_i,             \* position of `for symbol, trades in ...` in display_metrics
    idx,               \* `idx` of enumerate(trades, start=1) in display_metrics
    printed,           \* the transactions display_metrics has printed
    raised,            \* the exception that left the running method, or None
    loads,             \* number of calls of load_and_process made so far
    called,            \* the extractor load_and_process called last, or ""
    mexem_trades_by_symbol,  \* self.trades_by_symbol of the analyzer of mexem.py
    mexem_asset_metrics      \* self.asset_metrics of the analyzer of mexem.py

vars == <<csv_file, current_prices, sections, trades_by_symbol, realized_summary,
          deposits, asset_metrics, pc, rows, i, header, out, sym_i, idx, printed,
          raised, loads, called, mexem_trades_by_symbol, mexem_asset_metrics>>

\* the fields of the analyzer of mexem.py
mexem == <<mexem_trades_by_symbol, mexem_asset_metrics>>

-----------------------------------------------------------------------------
(* Bounds of the model *)

\* longest file / section (in rows) the specifications draw
MaxRows == 3
\* longest trade list of the traded symbol the specifications draw
MaxTrades == 2
\* longest file (in rows) load_and_process is run on as a whole
MaxFileRows == 4
\* most calls of load_and_process made on one analyzer
MaxLoads == 2

-----------------------------------------------------------------------------
(* Python values *)

None == <<>>
ValueError == <<"ValueError">>
IndexError == <<"IndexError">>
ZeroDivisionError == <<"ZeroDivisionError">>

\* string literals of the source
str_Trades == <<"T", "r", "a", "d", "e", "s">>
str_Realized == <<"R", "e", "a", "l", "i", "z", "e", "d", " ", "&", " ", "U", "n", "r", "e", "a", "l", "i", "z", "e", "d", " ", "P", "e", "r", "f", "o", "r", "m", "a", "n", "c", "e", " ", "S", "u", "m", "m", "a", "r", "y">>
str_Deposits == <<"D", "e", "p", "o", "s", "i", "t", "s", " ", "&", " ", "W", "i", "t", "h", "d", "r", "a", "w", "a", "l", "s">>
str_header == <<"h", "e", "a", "d", "e", "r">>
str_data == <<"d", "a", "t", "a">>
str_Symbol == <<"S", "y", "m", "b", "o", "l">>
str_Quantity == <<"Q", "u", "a", "n", "t", "i", "t", "y">>
str_TPrice == <<"T", ".", " ", "P", "r", "i", "c", "e">>
str_CommFee == <<"C", "o", "m", "m", "/", "F", "e", "e">>
str_RealizedTotal == <<"R", "e", "a", "l", "i", "z", "e", "d", " ", "T", "o", "t", "a", "l">>
str_UnrealizedTotal == <<"U", "n", "r", "e", "a", "l", "i", "z", "e", "d", " ", "T", "o", "t", "a", "l">>
str_Unknown == <<"U", "n", "k", "n", "o", "w", "n">>
str_0 == <<"0">>

\* str.strip(): leading and trailing whitespace removed
Whitespace == {" ", "\t", "\n", "\r"}

RECURSIVE LStrip(_)
LStrip(s) ==
    IF s = <<>> THEN s
    ELSE IF Head(s) \in Whitespace THEN LStrip(Tail(s)) ELSE s

RECURSIVE RStrip(_)
RStrip(s) ==
    IF s = <<>> THEN s
    ELSE IF s[Len(s)] \in Whitespace THEN RStrip(SubSeq(s, 1, Len(s) - 1)) ELSE s

Strip(s) == RStrip(LStrip(s))

\* str.lower() on ASCII letters
UpperLetters == <<"A", "B", "C", "D", "E", "F", "G", "H", "I", "J", "K", "L", "M",
                  "N", "O", "P", "Q", "R", "S", "T", "U", "V", "W", "X", "Y", "Z">>
LowerLetters == <<"a", "b", "c", "d", "e", "f", "g", "h", "i", "j", "k", "l", "m",
                  "n", "o", "p", "q", "r", "s", "t", "u", "v", "w", "x", "y", "z">>

LowerChar(c) ==
    IF \E k \in DOMAIN UpperLetters : UpperLetters[k] = c
    THEN LowerLetters[CHOOSE k \in DOMAIN UpperLetters : UpperLetters[k] = c]
    ELSE c

Lower(s) == [k \in 1..Len(s) |-> LowerChar(s[k])]

-----------------------------------------------------------------------------
(* Floats as exact rationals *)

Abs(n) == IF n < 0 THEN -n ELSE n

RECURSIVE GCD(_, _)
GCD(a, b) == IF b = 0 THEN a ELSE GCD(b, a % b)

\* n/d in lowest terms with a positive denominator (d # 0)
Rat(n, d) ==
    LET g == GCD(Abs(n), Abs(d))
        sgn == IF d < 0 THEN -1 ELSE 1
    IN  <<sgn * (n \div g), sgn * (d \div g)>>

Zero == <<0, 1>>
Hundred == <<100, 1>>

IsNumber(x) == Len(x) = 2
Add(a, b) == Rat(a[1] * b[2] + b[1] * a[2], a[2] * b[2])
Sub(a, b) == Rat(a[1] * b[2] - b[1] * a[2], a[2] * b[2])
Mul(a, b) == Rat(a[1] * b[1], a[2] * b[2])
Neg(a) == <<-a[1], a[2]>>
\* float division: ZeroDivisionError on a zero divisor
Div(a, b) == IF b[1] = 0 THEN ZeroDivisionError ELSE Rat(a[1] * b[2], a[2] * b[1])
\* truthiness of a float: it is not zero
Truthy(a) == a[1] # 0
Negative(a) == a[1] < 0

\* float(str): an optional sign, digits with at most one decimal point and at
\* least one digit, surrounded by optional whitespace; ValueError otherwise
Digits == <<"0", "1", "2", "3", "4", "5", "6", "7", "8", "9">>
IsDigit(c) == \E k \in DOMAIN Digits : Digits[k] = c
DigitVal(c) == (CHOOSE k \in DOMAIN Digits : Digits[k] = c) - 1

RECURSIVE DigitsValue(_)
DigitsValue(s) ==
    IF s = <<>> THEN 0
    ELSE 10 * DigitsValue(SubSeq(s, 1, Len(s) - 1)) + DigitVal(s[Len(s)])

RECURSIVE Pow10(_)
Pow10(k) == IF k = 0 THEN 1 ELSE 10 * Pow10(k - 1)

\* the digits ip before and fp after the decimal point
parse_parts(ip, fp, negative) ==
    IF ip \o fp = <<>> \/ \E k \in DOMAIN (ip \o fp) : ~IsDigit((ip \o fp)[k])
    THEN ValueError
    ELSE Rat(IF negative THEN -DigitsValue(ip \o fp) ELSE DigitsValue(ip \o fp),
             Pow10(Len(fp)))

\* the unsigned literal, cut at the position dot of its decimal point
parse_at(body, dot, negative) ==
    parse_parts(SubSeq(body, 1, dot - 1), SubSeq(body, dot + 1, Len(body)), negative)

\* the unsigned literal and the positions dots of its decimal points
parse_unsigned(body, dots, negative) ==
    IF Cardinality(dots) > 1 THEN ValueError
    ELSE parse_at(body, IF dots = {} THEN Len(body) + 1 ELSE CHOOSE k \in dots : TRUE,
                  negative)

\* the literal without its sign
parse_body(body, negative) ==
    parse_unsigned(body, {k \in DOMAIN body : body[k] = "."}, negative)

\* the literal t without surrounding whitespace
parse_signed(t, signed) ==
    parse_body(IF signed THEN Tail(t) ELSE t, signed /\ t[1] = "-")

parse_stripped(t) == parse_signed(t, t # <<>> /\ t[1] \in {"+", "-"})

Float(s) == parse_stripped(Strip(s))

-----------------------------------------------------------------------------
(* dicts: insertion-ordered sequences of <<key, value>> *)

Keys(d) == {d[k][1] : k \in DOMAIN d}
Has(d, key) == \E k \in DOMAIN d : d[k][1] = key
\* dict.get(key, default)
Get(d, key, default) ==
    IF Has(d, key) THEN d[CHOOSE k \in DOMAIN d : d[k][1] = key][2] ELSE default
\* d[key] = value: a known key keeps its position
Put(d, key, value) ==
    IF Has(d, key)
    THEN [k \in DOMAIN d |-> IF d[k][1] = key THEN <<key, value>> ELSE d[k]]
    ELSE Append(d, <<key, value>>)
\* d.setdefault(key, []).append(value)
SetDefaultAppend(d, key, value) == Put(d, key, Append(Get(d, key, <<>>), value))

-----------------------------------------------------------------------------
(* PortfolioAnalyzer.__init__ and the idle values of the locals *)

\* mutant of Constructed: trades_by_symbol is not reset
Constructed_keeping_trades(file, prices) ==
    /\ csv_file = file
    /\ current_prices = prices
    /\ sections = <<>>
    /\ trades_by_symbol = << << <<"A", "A", "P", "L">>, << <<>> >> >> >>
    /\ realized_summary = <<>>
    /\ deposits = <<>>
    /\ asset_metrics = <<>>

\* the fields __init__ sets, for a file and a price-override map
Constructed(file, prices) ==
    /\ csv_file = file
    /\ current_prices = prices
    /\ sections = <<>>
    /\ trades_by_symbol = <<>>
    /\ realized_summary = <<>>
    /\ deposits = <<>>
    /\ asset_metrics = <<>>

\* no method called by the first load_and_process is running
NoLocals ==
    /\ mexem_trades_by_symbol = <<>>
    /\ mexem_asset_metrics = <<>>
    /\ loads = 1
    /\ called = ""
    /\ rows = <<>>
    /\ i = 0
    /\ header = None
    /\ out = <<>>
    /\ sym_i = 0
    /\ idx = 0
    /\ printed = <<>>
    /\ raised = None

-----------------------------------------------------------------------------
(* parse_csv_sections *)

\* mutant of section_name: the first cell is not trimmed
section_name_untrimmed(row) == row[1]

\* section_name = row[0].strip()
section_name(row) == Strip(row[1])

\* the loop `for row in reader`, over the first n rows of the file
RECURSIVE grouped(_, _)
grouped(file, n) ==
    IF n = 0 THEN <<>>
    ELSE LET row == file[n]
             before == grouped(file, n - 1)
         IN  IF row = <<>> THEN before
             ELSE SetDefaultAppend(before, section_name(row), row)

parse_csv_sections ==
    /\ pc = "start"
    /\ sections' = grouped(csv_file, Len(csv_file))
    /\ pc' = "parsed"
    /\ UNCHANGED <<mexem, loads, called, csv_file, current_prices, trades_by_symbol, realized_summary,
                   deposits, asset_metrics, rows, i, header, out, sym_i, idx,
                   printed, raised>>

\* input strings of the files drawn
in_Header == <<"H", "e", "a", "d", "e", "r">>
in_Data == <<"D", "a", "t", "a">>
in_AAPL == <<"A", "A", "P", "L">>
in_TradesPadded == <<" ", "T", "r", "a", "d", "e", "s", " ">>
in_Blank == <<" ">>

\* rows of the files drawn: a blank line, rows of two sections, a section name
\* written with surrounding blanks, a one-cell row, a line holding one blank
FileRowPool ==
    { <<>>,
      <<str_Trades, in_Header, str_Symbol>>,
      <<in_TradesPadded, in_Data, in_AAPL>>,
      <<str_Deposits, in_Data>>,
      <<str_Trades>>,
      <<in_Blank>> }

SeqsUpTo(S, n) == UNION {[1..k -> S] : k \in 0..n}

InitSplit ==
    /\ \E file \in SeqsUpTo(FileRowPool, MaxRows) : Constructed(file, <<>>)
    /\ NoLocals
    /\ pc = "start"

NextSplit == parse_csv_sections

SpecSplit == InitSplit /\ [][NextSplit]_vars

\* the rows of the file that have at least one cell
NonBlank(file) == SelectSeq(file, LAMBDA r : r # <<>>)

RECURSIVE SumOfSizes(_)
SumOfSizes(d) == IF d = <<>> THEN 0 ELSE Len(Head(d)[2]) + SumOfSizes(Tail(d))

\* C1: parse_csv_sections partitions the rows that have a cell: the section
\* names are exactly the trimmed first cells, each name occurs once, the group
\* under a name is the file's rows with that trimmed first cell in file order
\* (so a row with no cell is in no group), and the group sizes add up to the
\* number of rows that have a cell.
C1_Partition ==
    pc = "parsed" =>
        /\ Keys(sections) =
               {Strip(r[1]) : r \in {csv_file[k] : k \in DOMAIN csv_file} \ {<<>>}}
        /\ \A a, b \in DOMAIN sections : sections[a][1] = sections[b][1] => a = b
        /\ \A a \in DOMAIN sections :
               sections[a][2] =
                   SelectSeq(csv_file, LAMBDA r : r # <<>> /\ Strip(r[1]) = sections[a][1])
        /\ SumOfSizes(sections) = Len(NonBlank(csv_file))

\* C1 witness: a parsed file with a blank row and a group of two rows whose
\* first cells differ before trimming
C1_Witness ==
    /\ pc = "parsed"
    /\ \E k \in DOMAIN csv_file : csv_file[k] = <<>>
    /\ \E a \in DOMAIN sections :
           /\ Len(sections[a][2]) = 2
           /\ sections[a][2][1][1] # sections[a][2][2][1]

-----------------------------------------------------------------------------
(* The section extractors: process_trades, process_realized_summary and    *)
(* process_deposits, one loop iteration per step                           *)

Min(a, b) == IF a < b THEN a ELSE b

\* row[1].strip().lower()
tag(row) == Lower(Strip(row[2]))

\* mutant of header_of: the slice starts at the tag cell
header_of_from_tag(row) == [k \in 1..(Len(row) - 1) |-> Strip(row[k + 1])]

\* header = [x.strip() for x in row[2:]]
header_of(row) == [k \in 1..(Len(row) - 2) |-> Strip(row[k + 2])]

\* {header[i]: row[i+2].strip() for i in range(n)}: the keys are set in the
\* order of i, a repeated key keeps its place and takes the later value
RECURSIVE zipped(_, _, _)
zipped(hdr, row, n) ==
    IF n <= 0 THEN <<>>
    ELSE Put(zipped(hdr, row, n - 1), hdr[n], Strip(row[n + 2]))

\* ... for i in range(min(len(header), len(row)-2))
record_of(hdr, row) == zipped(hdr, row, Min(Len(hdr), Len(row) - 2))

\* row[1].strip().lower() == "header"
is_header_row(row) == tag(row) = str_header

\* mutant of is_data_row: the header is not tested
is_data_row_any_header(row, hdr) == tag(row) = str_data

\* row[1].strip().lower() == "data" and header
is_data_row(row, hdr) == tag(row) = str_data /\ hdr # <<>>

\* the dict d with value appended to the list under key, the key moved last
MoveToEnd(d, key, value) ==
    Append(SelectSeq(d, LAMBDA e : e[1] # key), <<key, Append(Get(d, key, <<>>), value)>>)

\* mutant of by_symbol: a symbol seen again moves behind the others
RECURSIVE by_symbol_moving(_, _)
by_symbol_moving(trades, n) ==
    IF n = 0 THEN <<>>
    ELSE IF Get(trades[n], str_Symbol, None) # <<>>
    THEN MoveToEnd(by_symbol_moving(trades, n - 1), Get(trades[n], str_Symbol, None),
                   trades[n])
    ELSE by_symbol_moving(trades, n - 1)

\* mutant of by_symbol: a trade is grouped whatever its symbol
RECURSIVE by_symbol_unchecked(_, _)
by_symbol_unchecked(trades, n) ==
    IF n = 0 THEN <<>>
    ELSE SetDefaultAppend(by_symbol_unchecked(trades, n - 1),
                          Get(trades[n], str_Symbol, None), trades[n])

\* the grouping loop of process_trades over the first n trades:
\* symbol = trade.get("Symbol"); if symbol: setdefault(symbol, []).append(trade)
RECURSIVE by_symbol(_, _)
by_symbol(trades, n) ==
    IF n = 0 THEN <<>>
    ELSE LET trade == trades[n]
             symbol == Get(trade, str_Symbol, None)
             before == by_symbol(trades, n - 1)
         IN  IF symbol # <<>> THEN SetDefaultAppend(before, symbol, trade)
             ELSE before

\* one iteration of `for row in rows` of process_trades
process_trades_row ==
    /\ pc = "process_trades"
    /\ i <= Len(rows)
    /\ LET row == rows[i]
       IN  IF Len(row) < 3
           THEN UNCHANGED <<header, out>>
           ELSE IF is_header_row(row)
           THEN header' = header_of(row) /\ UNCHANGED out
           ELSE IF is_data_row(row, header)
           THEN out' = Append(out, record_of(header, row)) /\ UNCHANGED header
           ELSE UNCHANGED <<header, out>>
    /\ i' = i + 1
    /\ UNCHANGED <<mexem, loads, called, csv_file, current_prices, sections, trades_by_symbol,
                   realized_summary, deposits, asset_metrics, pc, rows, sym_i, idx,
                   printed, raised>>

\* the end of process_trades: the trades are grouped and stored
process_trades_return ==
    /\ pc = "process_trades"
    /\ i > Len(rows)
    /\ trades_by_symbol' = by_symbol(out, Len(out))
    /\ pc' = "returned"
    /\ UNCHANGED <<mexem, loads, called, csv_file, current_prices, sections, realized_summary, deposits,
                   asset_metrics, rows, i, header, out, sym_i, idx, printed, raised>>

\* one iteration of `for row in rows` of process_realized_summary; row[1] of a
\* one-cell row raises IndexError, which leaves the method
process_realized_summary_row ==
    /\ pc = "process_realized_summary"
    /\ i <= Len(rows)
    /\ LET row == rows[i]
       IN  IF Len(row) < 2
           THEN /\ raised' = IndexError
                /\ pc' = "raised"
                /\ UNCHANGED <<header, out, i>>
           ELSE /\ IF is_header_row(row)
                   THEN header' = header_of(row) /\ UNCHANGED out
                   ELSE IF is_data_row(row, header)
                   THEN LET data == record_of(header, row)
                            symbol == Get(data, str_Symbol, str_Unknown)
                        IN  out' = Put(out, symbol, data) /\ UNCHANGED header
                   ELSE UNCHANGED <<header, out>>
                /\ i' = i + 1
                /\ UNCHANGED <<pc, raised>>
    /\ UNCHANGED <<mexem, loads, called, csv_file, current_prices, sections, trades_by_symbol,
                   realized_summary, deposits, asset_metrics, rows, sym_i, idx,
                   printed>>

process_realized_summary_return ==
    /\ pc = "process_realized_summary"
    /\ i > Len(rows)
    /\ realized_summary' = out
    /\ pc' = "returned"
    /\ UNCHANGED <<mexem, loads, called, csv_file, current_prices, sections, trades_by_symbol, deposits,
                   asset_metrics, rows, i, header, out, sym_i, idx, printed, raised>>

\* one iteration of `for row in rows` of process_deposits
process_deposits_row ==
    /\ pc = "process_deposits"
    /\ i <= Len(rows)
    /\ LET row == rows[i]
       IN  IF Len(row) < 2
           THEN /\ raised' = IndexError
                /\ pc' = "raised"
                /\ UNCHANGED <<header, out, i>>
           ELSE /\ IF is_header_row(row)
                   THEN header' = header_of(row) /\ UNCHANGED out
                   ELSE IF is_data_row(row, header)
                   THEN out' = Append(out, record_of(header, row)) /\ UNCHANGED header
                   ELSE UNCHANGED <<header, out>>
                /\ i' = i + 1
                /\ UNCHANGED <<pc, raised>>
    /\ UNCHANGED <<mexem, loads, called, csv_file, current_prices, sections, trades_by_symbol,
                   realized_summary, deposits, asset_metrics, rows, sym_i, idx,
                   printed>>

process_deposits_return ==
    /\ pc = "process_deposits"
    /\ i > Len(rows)
    /\ deposits' = out
    /\ pc' = "returned"
    /\ UNCHANGED <<mexem, loads, called, csv_file, current_prices, sections, trades_by_symbol,
                   realized_summary, asset_metrics, rows, i, header, out, sym_i, idx,
                   printed, raised>>

Extractors == {"process_trades", "process_realized_summary", "process_deposits"}

\* the section load_and_process hands to each extractor
SectionOf(method) ==
    IF method = "process_trades" THEN str_Trades
    ELSE IF method = "process_realized_summary" THEN str_Realized
    ELSE str_Deposits

\* input strings of the sections drawn
in_HEADERPadded == <<" ", "H", "E", "A", "D", "E", "R", " ">>
in_dataLower == <<"d", "a", "t", "a">>
in_Total == <<"T", "o", "t", "a", "l">>
in_SymbolPadded == <<" ", "S", "y", "m", "b", "o", "l">>
in_MSFT == <<"M", "S", "F", "T">>
in_10Padded == <<" ", "1", "0", " ">>
in_5 == <<"5">>
in_x == <<"x">>

\* the cells after the section name of the rows drawn: two headers (the second
\* in another case, padded, and naming Symbol twice), data rows shorter than,
\* as long as and longer than a header, a row with another tag, and rows of
\* two cells and of one cell
RowTailPool ==
    { <<in_Header, str_Symbol, str_Quantity>>,
      <<in_HEADERPadded, str_TPrice, in_SymbolPadded, str_Symbol>>,
      <<in_Data, in_AAPL, in_10Padded>>,
      <<in_dataLower, in_MSFT>>,
      <<in_Data, in_AAPL, in_5, in_x>>,
      <<in_Total, in_AAPL, in_5>>,
      <<in_Header>>,
      <<in_Data>>,
      <<>> }

\* load_and_process has parsed a file holding one section and calls the
\* section's extractor
InitExtract ==
    \E method \in Extractors :
        \E tails \in SeqsUpTo(RowTailPool, MaxRows) :
            LET file == [k \in 1..Len(tails) |-> <<SectionOf(method)>> \o tails[k]]
            IN  /\ Len(tails) >= 1
                /\ csv_file = file
                /\ current_prices = <<>>
                /\ sections = grouped(file, Len(file))
                /\ trades_by_symbol = <<>>
                /\ realized_summary = <<>>
                /\ deposits = <<>>
                /\ asset_metrics = <<>>
                /\ pc = method
                /\ rows = file
                /\ i = 1
                /\ header = None
                /\ out = <<>>
                /\ sym_i = 0
                /\ idx = 0
                /\ printed = <<>>
                /\ raised = None
                /\ loads = 1
                /\ called = method
                /\ mexem_trades_by_symbol = <<>>
                /\ mexem_asset_metrics = <<>>

NextExtract ==
    \/ process_trades_row
    \/ process_trades_return
    \/ process_realized_summary_row
    \/ process_realized_summary_return
    \/ process_deposits_row
    \/ process_deposits_return

SpecExtract == InitExtract /\ [][NextExtract]_vars

-----------------------------------------------------------------------------
(* Claims about the section extractors *)

\* a loop iteration of an extractor is about to run on rows[i]
InLoop == pc \in Extractors /\ i \in DOMAIN rows

\* rows by the tag in their second cell, read without regard to the extractor
HeaderTag(row) == Len(row) >= 2 /\ Lower(Strip(row[2])) = str_header
DataTag(row) == Len(row) >= 2 /\ Lower(Strip(row[2])) = str_data

\* C2: every extractor starts with no header; a data-tag row with no
\* header-tag row before it in the section emits no record; a row that is
\* neither a header-tag nor a data-tag row emits no record and leaves the
\* active field-name list unchanged.
C2_NoHeaderNoRecord ==
    /\ [](pc \in Extractors /\ i = 1 => header = None)
    /\ [][InLoop =>
            /\ (DataTag(rows[i]) /\ ~\E k \in 1..(i - 1) : HeaderTag(rows[k]))
                   => out' = out
            /\ (~DataTag(rows[i]) /\ ~HeaderTag(rows[i]))
                   => (out' = out /\ header' = header)]_vars

\* C2 witness: a data-tag row with no header-tag row before it has been
\* passed, and so has a row with another tag, and a later data row has
\* emitted a record
C2_Witness ==
    /\ pc \in Extractors
    /\ out # <<>>
    /\ \E k \in 1..(i - 1) :
           DataTag(rows[k]) /\ ~\E j \in 1..(k - 1) : HeaderTag(rows[j])

\* the header-tag rows an extractor reads a tag from: process_trades skips a
\* row of fewer than 3 cells before it looks at the tag
TaggedHeader(method, row) ==
    HeaderTag(row) /\ (method = "process_trades" => Len(row) >= 3)

\* the records the step from out to out' emits
Emitted(method, before, after) ==
    IF method = "process_realized_summary"
    THEN {after[k][2] : k \in {j \in DOMAIN after :
                                  j \notin DOMAIN before \/ before[j] # after[j]}}
    ELSE IF Len(after) > Len(before) THEN {after[Len(after)]} ELSE {}

\* the most recent header-tag row before rows[i]
HeaderRowsBefore == {k \in 1..(i - 1) : TaggedHeader(pc, rows[k])}
LastHeaderRow == rows[CHOOSE k \in HeaderRowsBefore : \A j \in HeaderRowsBefore : j <= k]

\* field name j (from 1) of a header row
FieldName(hrow, j) == Strip(hrow[j + 2])

NoValue == <<"no value">>

\* C3 as claimed: a record emitted for rows[i] maps field name j of the most
\* recent header-tag row to the trimmed cell j of the data row, for every j up
\* to min(header length, row length - 2), and has no other key.
C3_EveryFieldPaired ==
    [][InLoop =>
        \A rec \in Emitted(pc, out, out') :
            /\ HeaderRowsBefore # {}
            /\ LET n == Min(Len(LastHeaderRow) - 2, Len(rows[i]) - 2)
               IN  /\ Keys(rec) = {FieldName(LastHeaderRow, j) : j \in 1..n}
                   /\ \A j \in 1..n :
                          Get(rec, FieldName(LastHeaderRow, j), NoValue)
                              = Strip(rows[i][j + 2])]_vars

\* C3 amended: ... maps each field name to the trimmed cell at the last
\* position j, up to min(header length, row length - 2), at which the header
\* lists that name, and has no other key; no field name of an earlier header
\* is a key unless the most recent header lists it too.
C3_LastFieldPaired ==
    [][InLoop =>
        \A rec \in Emitted(pc, out, out') :
            /\ HeaderRowsBefore # {}
            /\ LET n == Min(Len(LastHeaderRow) - 2, Len(rows[i]) - 2)
               IN  /\ Keys(rec) = {FieldName(LastHeaderRow, j) : j \in 1..n}
                   /\ \A j \in 1..n :
                          (\A l \in (j + 1)..n :
                               FieldName(LastHeaderRow, l) # FieldName(LastHeaderRow, j))
                          => Get(rec, FieldName(LastHeaderRow, j), NoValue)
                                 = Strip(rows[i][j + 2])
                   /\ \A k \in HeaderRowsBefore : \A j \in 1..(Len(rows[k]) - 2) :
                          FieldName(rows[k], j) \in Keys(rec)
                          => \E l \in 1..(Len(LastHeaderRow) - 2) :
                                 FieldName(LastHeaderRow, l) = FieldName(rows[k], j)]_vars

\* C3 witness: after two header rows with different field names, a data row
\* has emitted a record that holds a name listed twice by the later header
C3_Witness ==
    /\ pc \in Extractors
    /\ i = 4
    /\ TaggedHeader(pc, rows[1])
    /\ TaggedHeader(pc, rows[2])
    /\ header_of(rows[1]) # header_of(rows[2])
    /\ \E j, l \in 1..Len(header) : j < l /\ header[j] = header[l]
    /\ out # <<>>

-----------------------------------------------------------------------------
(* compute_asset_metrics *)

\* d[key] of a dict that holds the key
Item(d, key) == d[CHOOSE k \in DOMAIN d : d[k][1] = key][2]

\* an exception raised by the evaluation of an expression
IsRaised(x) == Len(x) = 1

\* mutant of add_trade: the commission is not subtracted
add_trade_no_commission(acc, qty, price, commission) ==
    IF ~IsNumber(qty) \/ ~IsNumber(price) \/ ~IsNumber(commission)
    THEN acc
    ELSE <<Add(acc[1], qty), Add(acc[2], Mul(qty, price))>>

\* mutant of add_trade: total_qty is updated before the price is coerced
add_trade_partial(acc, qty, price, commission) ==
    IF ~IsNumber(qty) THEN acc
    ELSE IF ~IsNumber(price) \/ ~IsNumber(commission) THEN <<Add(acc[1], qty), acc[2]>>
    ELSE <<Add(acc[1], qty), Add(acc[2], Sub(Mul(qty, price), commission))>>

\* total_qty += qty; total_cost += qty * price - commission, reached only when
\* none of the three coercions raised ValueError (otherwise: continue)
add_trade(acc, qty, price, commission) ==
    IF ~IsNumber(qty) \/ ~IsNumber(price) \/ ~IsNumber(commission)
    THEN acc
    ELSE <<Add(acc[1], qty), Add(acc[2], Sub(Mul(qty, price), commission))>>

\* the try block of the trade loop: the three fields are coerced before either
\* total is touched
accumulate(acc, trade) ==
    add_trade(acc,
              Float(Get(trade, str_Quantity, str_0)),
              Float(Get(trade, str_TPrice, str_0)),
              Float(Get(trade, str_CommFee, str_0)))

\* <<total_qty, total_cost>> after the first n trades, from 0.0 and 0.0
RECURSIVE totals(_, _)
totals(trades, n) ==
    IF n = 0 THEN <<Zero, Zero>>
    ELSE accumulate(totals(trades, n - 1), trades[n])

\* mutant of avg_price_of: the division is not guarded
avg_price_unguarded(total_cost, total_qty) == Div(total_cost, total_qty)

\* avg_price = total_cost / total_qty if total_qty else 0
avg_price_of(total_cost, total_qty) ==
    IF Truthy(total_qty) THEN Div(total_cost, total_qty) ELSE Zero

\* pct_return = (abs_pl / total_cost * 100) if total_cost else None
times_hundred(q) == IF IsRaised(q) THEN q ELSE Mul(q, Hundred)

pct_return_of(abs_pl, total_cost) ==
    IF Truthy(total_cost) THEN times_hundred(Div(abs_pl, total_cost)) ELSE None

\* mutant of both_or_zero: each total defaults on its own
each_or_zero(realized_total, unrealized_total) ==
    <<IF IsNumber(realized_total) THEN realized_total ELSE Zero,
      IF IsNumber(unrealized_total) THEN unrealized_total ELSE Zero>>

\* realized_total, unrealized_total = 0, 0 on a ValueError of either coercion
both_or_zero(realized_total, unrealized_total) ==
    IF ~IsNumber(realized_total) \/ ~IsNumber(unrealized_total)
    THEN <<Zero, Zero>>
    ELSE <<realized_total, unrealized_total>>

\* <<realized_total, unrealized_total>>: both coerced in one try block
performance_totals(realized_data) ==
    both_or_zero(Float(Get(realized_data, str_RealizedTotal, str_0)),
                 Float(Get(realized_data, str_UnrealizedTotal, str_0)))

\* metrics[symbol] = {...}, or the exception the percentage raised
metrics_dict(total_qty, total_cost, avg_price, current_price, current_value, abs_pl, pct_return, perf) ==
    IF IsRaised(pct_return) THEN pct_return
    ELSE << <<"total_quantity", total_qty>>,
            <<"total_cost", total_cost>>,
            <<"avg_purchase_price", avg_price>>,
            <<"current_price", current_price>>,
            <<"current_value", current_value>>,
            <<"absolute_pl", abs_pl>>,
            <<"percentage_return", pct_return>>,
            <<"realized_total", perf[1]>>,
            <<"unrealized_total", perf[2]>> >>

\* abs_pl = current_value - total_cost and the percentage
with_value(total_qty, total_cost, avg_price, current_price, current_value, perf) ==
    metrics_dict(total_qty, total_cost, avg_price, current_price, current_value,
                 Sub(current_value, total_cost),
                 pct_return_of(Sub(current_value, total_cost), total_cost), perf)

\* current_value = total_qty * current_price
with_price(total_qty, total_cost, avg_price, current_price, perf) ==
    with_value(total_qty, total_cost, avg_price, current_price,
               Mul(total_qty, current_price), perf)

\* mutant of with_average: a symbol without override is priced at 0
with_average_priced_zero(symbol, total_qty, total_cost, avg_price, prices, summary) ==
    IF IsRaised(avg_price) THEN avg_price
    ELSE with_price(total_qty, total_cost, avg_price, Get(prices, symbol, Zero),
                    performance_totals(Get(summary, symbol, <<>>)))

\* current_price = self.current_prices.get(symbol, avg_price), unless the
\* average raised
with_average(symbol, total_qty, total_cost, avg_price, prices, summary) ==
    IF IsRaised(avg_price) THEN avg_price
    ELSE with_price(total_qty, total_cost, avg_price, Get(prices, symbol, avg_price),
                    performance_totals(Get(summary, symbol, <<>>)))

with_totals(symbol, tot, prices, summary) ==
    with_average(symbol, tot[1], tot[2], avg_price_of(tot[2], tot[1]), prices, summary)

\* the body of `for symbol, trades in self.trades_by_symbol.items()`: the
\* symbol's metrics dict, or the exception a division raised
symbol_metrics(symbol, trades, prices, summary) ==
    with_totals(symbol, totals(trades, Len(trades)), prices, summary)

\* the loop body applied to `metrics`, unless an exception has left the loop
put_metrics(before, symbol, m) ==
    IF before # <<>> /\ IsRaised(before[1]) THEN before
    ELSE IF IsRaised(m) THEN <<m>>
    ELSE Put(before, symbol, m)

\* `metrics` after the first n symbols, or the exception that left the loop
RECURSIVE metrics_of(_, _, _, _)
metrics_of(tbs, n, prices, summary) ==
    IF n = 0 THEN <<>>
    ELSE put_metrics(metrics_of(tbs, n - 1, prices, summary), tbs[n][1],
                     symbol_metrics(tbs[n][1], tbs[n][2], prices, summary))

\* `before` updated with every entry of the first n of `metrics`
RECURSIVE updated_with(_, _, _)
updated_with(before, metrics, n) ==
    IF n = 0 THEN before
    ELSE Put(updated_with(before, metrics, n - 1), metrics[n][1], metrics[n][2])

\* mutant of store_metrics: the new metrics are merged into the stored ones
store_metrics_merged(metrics) ==
    IF metrics # <<>> /\ IsRaised(metrics[1])
    THEN /\ raised' = metrics[1]
         /\ pc' = "raised"
         /\ UNCHANGED asset_metrics
    ELSE /\ asset_metrics' = updated_with(asset_metrics, metrics, Len(metrics))
         /\ pc' = "computed"
         /\ UNCHANGED raised

\* self.asset_metrics = metrics, unless an exception left the method
store_metrics(metrics) ==
    IF metrics # <<>> /\ IsRaised(metrics[1])
    THEN /\ raised' = metrics[1]
         /\ pc' = "raised"
         /\ UNCHANGED asset_metrics
    ELSE /\ asset_metrics' = metrics
         /\ pc' = "computed"
         /\ UNCHANGED raised

compute_asset_metrics ==
    /\ pc = "loaded"
    /\ store_metrics(metrics_of(trades_by_symbol, Len(trades_by_symbol),
                                current_prices, realized_summary))
    /\ UNCHANGED <<mexem, loads, called, csv_file, current_prices, sections, trades_by_symbol,
                   realized_summary, deposits, rows, i, header, out, sym_i, idx,
                   printed>>

-----------------------------------------------------------------------------
(* The analyzer after the sections are extracted: inputs of the metrics *)

\* input strings of the trades and performance entries drawn
in_10 == <<"1", "0">>
in_100 == <<"1", "0", "0">>
in_1 == <<"1">>
in_110 == <<"1", "1", "0">>
in_0p5 == <<"0", ".", "5">>
in_m10 == <<"-", "1", "0">>
in_2 == <<"2">>
in_2p5 == <<"2", ".", "5">>
in_4 == <<"4">>
in_12p5 == <<"1", "2", ".", "5">>
in_m3 == <<"-", "3">>
in_abc == <<"a", "b", "c">>
in_7 == <<"7">>
in_na == <<"n", "/", "a">>
in_9 == <<"9">>
in_empty == <<>>

\* a trade record under the header Symbol, Quantity, T. Price, Comm/Fee
Trade(symbol, qty, price, fee) ==
    << <<str_Symbol, symbol>>, <<str_Quantity, qty>>, <<str_TPrice, price>>,
       <<str_CommFee, fee>> >>

\* the trades drawn for AAPL: two buys with fees, a sell, a trade for each
\* field that fails coercion, a trade with no Comm/Fee cell, a trade with no
\* Quantity cell, and a trade failing on both Quantity and Comm/Fee
TradePool ==
    { Trade(in_AAPL, in_10, in_100, in_1),
      Trade(in_AAPL, in_5, in_110, in_0p5),
      Trade(in_AAPL, in_m10, in_110, str_0),
      Trade(in_AAPL, in_x, in_100, in_1),
      Trade(in_AAPL, in_10, in_x, in_1),
      Trade(in_AAPL, in_10, in_100, in_empty),
      << <<str_Symbol, in_AAPL>>, <<str_Quantity, in_2>>, <<str_TPrice, in_0p5>> >>,
      << <<str_Symbol, in_AAPL>>, <<str_TPrice, in_100>>, <<str_CommFee, in_1>> >>,
      Trade(in_AAPL, in_abc, in_100, in_na) }

\* the trades of a second symbol, present or not
OtherTrades == << Trade(in_MSFT, in_4, in_2p5, str_0) >>

\* values of trades_by_symbol process_trades can leave
TradesBySymbolPool ==
    {<<>>}
    \cup { << <<in_AAPL, ts>> >> : ts \in SeqsUpTo(TradePool, MaxTrades) \ {<<>>} }
    \cup { << <<in_AAPL, ts>>, <<in_MSFT, OtherTrades>> >> :
               ts \in SeqsUpTo(TradePool, MaxTrades) \ {<<>>} }

\* price-override maps parse_current_prices can return
PricesPool == { <<>>, << <<in_AAPL, <<120, 1>> >> >> }

\* values of realized_summary process_realized_summary can leave: no entry,
\* an entry with two numbers, entries failing on either total, and an entry
\* whose row has no Symbol cell
RealizedPool ==
    { <<>>,
      << <<in_AAPL, << <<str_Symbol, in_AAPL>>, <<str_RealizedTotal, in_12p5>>,
                       <<str_UnrealizedTotal, in_m3>> >> >> >>,
      << <<in_AAPL, << <<str_Symbol, in_AAPL>>, <<str_RealizedTotal, in_abc>>,
                       <<str_UnrealizedTotal, in_7>> >> >> >>,
      << <<in_AAPL, << <<str_Symbol, in_AAPL>>, <<str_RealizedTotal, in_4>>,
                       <<str_UnrealizedTotal, in_na>> >> >> >>,
      << <<str_Unknown, << <<str_RealizedTotal, in_9>>,
                           <<str_UnrealizedTotal, in_9>> >> >> >> }

\* load_and_process has extracted the sections and calls compute_asset_metrics
Init ==
    /\ \E tbs \in TradesBySymbolPool, prices \in PricesPool, summary \in RealizedPool :
           /\ csv_file = <<>>
           /\ current_prices = prices
           /\ sections = <<>>
           /\ trades_by_symbol = tbs
           /\ realized_summary = summary
           /\ deposits = <<>>
           /\ asset_metrics = <<>>
    /\ NoLocals
    /\ pc = "loaded"

Next == compute_asset_metrics

Spec == Init /\ [][Next]_vars

-----------------------------------------------------------------------------
(* compute_transaction_metrics and the transaction loop of display_metrics *)

\* the returned dict, reached only if float(trade.get("Comm/Fee", "0")) did
\* not raise
tx_dict(qty, trade_price, cost, current_val, profit_loss, pct_return, commission) ==
    IF IsRaised(commission) THEN commission
    ELSE << <<"quantity", qty>>,
            <<"trade_price", trade_price>>,
            <<"cost", cost>>,
            <<"current_value", current_val>>,
            <<"profit_loss", profit_loss>>,
            <<"percentage_return", pct_return>>,
            <<"commission", commission>> >>

\* pct_return = (profit_loss / cost * 100) if cost else None
tx_pct_return_of(profit_loss, cost) ==
    IF Truthy(cost) THEN times_hundred(Div(profit_loss, cost)) ELSE None

\* mutant of negate_for_sell: the sign is never inverted
keep_sign(qty, pct_return) == pct_return

\* if qty < 0 and pct_return is not None: pct_return = -pct_return
negate_for_sell(qty, pct_return) ==
    IF Negative(qty) /\ pct_return # None THEN Neg(pct_return) ELSE pct_return

\* profit_loss = current_val - cost known
tx_with_profit(trade, qty, trade_price, cost, current_val, profit_loss) ==
    tx_dict(qty, trade_price, cost, current_val, profit_loss,
            negate_for_sell(qty, tx_pct_return_of(profit_loss, cost)),
            Float(Get(trade, str_CommFee, str_0)))

\* cost = qty * trade_price and current_val = qty * current_price known
tx_with_cost(trade, qty, trade_price, cost, current_val) ==
    tx_with_profit(trade, qty, trade_price, cost, current_val, Sub(current_val, cost))

\* mutant of tx_coerced: a field that does not coerce counts as 0
tx_defaulted(trade, qty, trade_price, current_price) ==
    tx_with_cost(trade,
                 IF IsNumber(qty) THEN qty ELSE Zero,
                 IF IsNumber(trade_price) THEN trade_price ELSE Zero,
                 Zero, Zero)

\* the try block: None if Quantity or T. Price raised ValueError
tx_coerced(trade, qty, trade_price, current_price) ==
    IF ~IsNumber(qty) \/ ~IsNumber(trade_price) THEN None
    ELSE tx_with_cost(trade, qty, trade_price, Mul(qty, trade_price),
                      Mul(qty, current_price))

\* the dict returned, None, or the exception raised
compute_transaction_metrics(trade, current_price) ==
    tx_coerced(trade, Float(Get(trade, str_Quantity, str_0)),
               Float(Get(trade, str_TPrice, str_0)), current_price)

\* self.current_prices.get(symbol,
\*     self.asset_metrics.get(symbol, {}).get("avg_purchase_price", 0))
tx_current_price(symbol) ==
    Get(current_prices, symbol,
        Get(Get(asset_metrics, symbol, <<>>), "avg_purchase_price", Zero))

\* the asset loop of display_metrics prints and changes nothing; with
\* detailed_tx the transaction loop starts
display_metrics_assets ==
    /\ pc = "display"
    /\ pc' = "symbol"
    /\ sym_i' = 1
    /\ UNCHANGED <<mexem, loads, called, csv_file, current_prices, sections, trades_by_symbol,
                   realized_summary, deposits, asset_metrics, rows, i, header, out,
                   idx, printed, raised>>

\* for symbol, trades in self.trades_by_symbol.items(): the next symbol
display_metrics_symbol ==
    /\ pc = "symbol"
    /\ sym_i <= Len(trades_by_symbol)
    /\ pc' = "tx"
    /\ idx' = 1
    /\ UNCHANGED <<mexem, loads, called, csv_file, current_prices, sections, trades_by_symbol,
                   realized_summary, deposits, asset_metrics, rows, i, header, out,
                   sym_i, printed, raised>>

\* the body of the trade loop applied to tx: the exception propagates, a
\* falsy tx is skipped, otherwise the transaction is printed under its idx
print_tx(symbol, tx) ==
    IF IsRaised(tx)
    THEN /\ raised' = tx
         /\ pc' = "raised"
         /\ UNCHANGED <<idx, printed>>
    ELSE /\ printed' = IF tx = None THEN printed ELSE Append(printed, <<symbol, idx, tx>>)
         /\ idx' = idx + 1
         /\ UNCHANGED <<pc, raised>>

\* for idx, trade in enumerate(trades, start=1): one trade
display_metrics_tx ==
    /\ pc = "tx"
    /\ idx <= Len(trades_by_symbol[sym_i][2])
    /\ print_tx(trades_by_symbol[sym_i][1],
                compute_transaction_metrics(trades_by_symbol[sym_i][2][idx],
                                            tx_current_price(trades_by_symbol[sym_i][1])))
    /\ UNCHANGED <<mexem, loads, called, csv_file, current_prices, sections, trades_by_symbol,
                   realized_summary, deposits, asset_metrics, rows, i, header, out,
                   sym_i>>

\* the trade loop of the symbol is exhausted
display_metrics_trades_done ==
    /\ pc = "tx"
    /\ idx > Len(trades_by_symbol[sym_i][2])
    /\ pc' = "symbol"
    /\ sym_i' = sym_i + 1
    /\ UNCHANGED <<mexem, loads, called, csv_file, current_prices, sections, trades_by_symbol,
                   realized_summary, deposits, asset_metrics, rows, i, header, out,
                   idx, printed, raised>>

\* the symbol loop is exhausted: display_metrics returns
display_metrics_return ==
    /\ pc = "symbol"
    /\ sym_i > Len(trades_by_symbol)
    /\ pc' = "displayed"
    /\ UNCHANGED <<mexem, loads, called, csv_file, current_prices, sections, trades_by_symbol,
                   realized_summary, deposits, asset_metrics, rows, i, header, out,
                   sym_i, idx, printed, raised>>

\* the analyzer after load_and_process, display_metrics(detailed_tx=True)
\* about to run
InitDisplay ==
    /\ \E tbs \in TradesBySymbolPool, prices \in PricesPool :
           /\ csv_file = <<>>
           /\ current_prices = prices
           /\ sections = <<>>
           /\ trades_by_symbol = tbs
           /\ realized_summary = <<>>
           /\ deposits = <<>>
           /\ asset_metrics = metrics_of(tbs, Len(tbs), prices, <<>>)
    /\ NoLocals
    /\ pc = "display"

NextDisplay ==
    \/ display_metrics_assets
    \/ display_metrics_symbol
    \/ display_metrics_tx
    \/ display_metrics_trades_done
    \/ display_metrics_return

SpecDisplay == InitDisplay /\ [][NextDisplay]_vars

-----------------------------------------------------------------------------
(* load_and_process: the calls it makes, one per step *)

\* the extractors in the order load_and_process calls them
CallOrder == <<"process_trades", "process_realized_summary", "process_deposits">>

\* the extractors load_and_process has still to reach whose section is in
\* self.sections: `if "..." in self.sections`
Pending ==
    {k \in DOMAIN CallOrder :
        /\ \A j \in k..Len(CallOrder) : CallOrder[j] # called
        /\ Has(sections, SectionOf(CallOrder[k]))}

\* self.process_...(self.sections["..."]): the extractor starts with its
\* locals header = None and an empty result
call_extractor(method) ==
    /\ pc' = method
    /\ called' = method
    /\ rows' = Get(sections, SectionOf(method), <<>>)
    /\ i' = 1
    /\ header' = None
    /\ out' = <<>>

\* the next `if` of load_and_process whose section is present
load_and_process_call ==
    /\ pc \in {"parsed", "returned"}
    /\ Pending # {}
    /\ call_extractor(CallOrder[CHOOSE k \in Pending : \A j \in Pending : k <= j])
    /\ UNCHANGED <<mexem, csv_file, current_prices, sections, trades_by_symbol,
                   realized_summary, deposits, asset_metrics, sym_i, idx, printed,
                   raised, loads>>

\* no section is left: self.compute_asset_metrics() is next
load_and_process_extracted ==
    /\ pc \in {"parsed", "returned"}
    /\ Pending = {}
    /\ pc' = "loaded"
    /\ UNCHANGED <<mexem, csv_file, current_prices, sections, trades_by_symbol,
                   realized_summary, deposits, asset_metrics, rows, i, header, out,
                   sym_i, idx, printed, raised, loads, called>>

\* rows of the files drawn: a header and two trades, a header and an entry
\* of the performance summary, a header and a one-cell row of the deposits
row_TradesHeader == <<str_Trades, in_Header, str_Symbol, str_Quantity, str_TPrice>>
row_TradesAAPL == <<str_Trades, in_Data, in_AAPL, in_10, in_100>>
row_TradesMSFT == <<str_Trades, in_Data, in_MSFT, in_4, in_2p5>>
row_RealizedHeader == <<str_Realized, in_Header, str_Symbol, str_RealizedTotal, str_UnrealizedTotal>>
row_RealizedAAPL == <<str_Realized, in_Data, in_AAPL, in_12p5, in_m3>>
row_DepositsHeader == <<str_Deposits, in_Header, str_Symbol>>
row_Deposits == <<str_Deposits>>

LoadRowPool ==
    { row_TradesHeader, row_TradesAAPL, row_TradesMSFT, row_RealizedHeader,
      row_RealizedAAPL, row_DepositsHeader, row_Deposits }

\* a fresh analyzer, load_and_process about to parse the file
InitLoad ==
    /\ \E file \in SeqsUpTo(LoadRowPool, MaxFileRows) : Constructed(file, <<>>)
    /\ NoLocals
    /\ pc = "start"

NextLoad ==
    \/ parse_csv_sections
    \/ load_and_process_call
    \/ process_trades_row
    \/ process_trades_return
    \/ process_realized_summary_row
    \/ process_realized_summary_return
    \/ process_deposits_row
    \/ process_deposits_return
    \/ load_and_process_extracted
    \/ compute_asset_metrics

SpecLoad == InitLoad /\ [][NextLoad]_vars

-----------------------------------------------------------------------------
(* An analyzer used again: load_and_process and compute_asset_metrics called *)
(* on an analyzer that has completed load_and_process                       *)

\* the contents of the file at the calls of load_and_process: trades of AAPL
\* with its performance entry and a deposits header, trades of MSFT alone,
\* the performance entry alone, trades of AAPL alone, an empty file
ReloadFiles ==
    { <<row_TradesHeader, row_TradesAAPL, row_RealizedHeader, row_RealizedAAPL,
        row_DepositsHeader>>,
      <<row_TradesHeader, row_TradesMSFT>>,
      <<row_RealizedHeader, row_RealizedAAPL>>,
      <<row_TradesHeader, row_TradesAAPL>>,
      <<>> }

\* load_and_process is called again, the file holding other rows by now
load_and_process_again ==
    /\ pc = "computed"
    /\ loads < MaxLoads
    /\ \E file \in ReloadFiles : csv_file' = file
    /\ loads' = loads + 1
    /\ called' = ""
    /\ pc' = "start"
    /\ UNCHANGED <<mexem, current_prices, sections, trades_by_symbol,
                   realized_summary, deposits, asset_metrics, rows, i, header, out, sym_i, idx,
                   printed, raised>>

\* compute_asset_metrics is called again on the same inputs
compute_asset_metrics_again ==
    /\ pc = "computed"
    /\ store_metrics(metrics_of(trades_by_symbol, Len(trades_by_symbol),
                                current_prices, realized_summary))
    /\ UNCHANGED <<mexem, loads, called, csv_file, current_prices, sections,
                   trades_by_symbol, realized_summary, deposits, rows, i, header,
                   out, sym_i, idx, printed>>

InitReload ==
    /\ \E file \in ReloadFiles : Constructed(file, <<>>)
    /\ NoLocals
    /\ pc = "start"

NextReload ==
    \/ NextLoad
    \/ load_and_process_again
    \/ compute_asset_metrics_again

SpecReload == InitReload /\ [][NextReload]_vars

-----------------------------------------------------------------------------
(* mexem.py: process_trades and compute_asset_metrics of the other variant, *)
(* run on the rows and inputs the analyzer of main.py is run on             *)

mexem_Header == <<"H", "e", "a", "d", "e", "r">>
mexem_Data == <<"D", "a", "t", "a">>

\* mutant of mexem_tag: the cell is not trimmed
mexem_tag_untrimmed(row) == row[2]

\* row[1].strip()
mexem_tag(row) == Strip(row[2])

\* one iteration of `for row in trades_rows`, on the pair <<header, trades>>
mexem_process_trades_row(st, row) ==
    IF Len(row) < 3 THEN st
    ELSE IF mexem_tag(row) = mexem_Header THEN <<header_of(row), st[2]>>
    ELSE IF mexem_tag(row) = mexem_Data /\ st[1] # <<>>
    THEN <<st[1], Append(st[2], record_of(st[1], row))>>
    ELSE st

\* <<header, trades>> after the first n rows
RECURSIVE mexem_extracted(_, _)
mexem_extracted(trades_rows, n) ==
    IF n = 0 THEN <<None, <<>>>>
    ELSE mexem_process_trades_row(mexem_extracted(trades_rows, n - 1), trades_rows[n])

\* the grouping loop, the same statements as in main.py
mexem_grouped(st) == by_symbol(st[2], Len(st[2]))

\* process_trades of mexem.py, on the rows process_trades of main.py was
\* given
mexem_process_trades ==
    /\ pc = "returned"
    /\ mexem_trades_by_symbol' = mexem_grouped(mexem_extracted(rows, Len(rows)))
    /\ pc' = "loaded"
    /\ UNCHANGED <<mexem_asset_metrics, loads, called, csv_file, current_prices,
                   sections, trades_by_symbol, realized_summary, deposits,
                   asset_metrics, rows, i, header, out, sym_i, idx, printed, raised>>

\* mutant of mexem_add_trade: total_quantity is updated before the price is
\* coerced
mexem_add_trade_eager(acc, quantity, t_price) ==
    IF ~IsNumber(quantity) THEN acc
    ELSE IF ~(quantity[1] > 0) THEN acc
    ELSE IF ~IsNumber(t_price) THEN <<Add(acc[1], quantity), acc[2]>>
    ELSE <<Add(acc[1], quantity), Add(acc[2], Mul(quantity, t_price))>>

\* the try block: quantity coerced; if quantity > 0, t_price coerced and both
\* totals updated
mexem_add_trade(acc, quantity, t_price) ==
    IF ~IsNumber(quantity) THEN acc
    ELSE IF ~(quantity[1] > 0) THEN acc
    ELSE IF ~IsNumber(t_price) THEN acc
    ELSE <<Add(acc[1], quantity), Add(acc[2], Mul(quantity, t_price))>>

mexem_accumulate(acc, trade) ==
    mexem_add_trade(acc, Float(Get(trade, str_Quantity, str_0)),
                    Float(Get(trade, str_TPrice, str_0)))

\* <<total_quantity, total_cost>> after the first n trades
RECURSIVE mexem_totals(_, _)
mexem_totals(trades, n) ==
    IF n = 0 THEN <<Zero, Zero>>
    ELSE mexem_accumulate(mexem_totals(trades, n - 1), trades[n])

\* the loop body: from the average on, the same statements as in main.py
mexem_symbol_metrics(symbol, trades, prices, summary) ==
    with_totals(symbol, mexem_totals(trades, Len(trades)), prices, summary)

RECURSIVE mexem_metrics_of(_, _, _, _)
mexem_metrics_of(tbs, n, prices, summary) ==
    IF n = 0 THEN <<>>
    ELSE put_metrics(mexem_metrics_of(tbs, n - 1, prices, summary), tbs[n][1],
                     mexem_symbol_metrics(tbs[n][1], tbs[n][2], prices, summary))

\* self.asset_metrics = asset_metrics, unless an exception left the method
mexem_store_metrics(metrics) ==
    IF metrics # <<>> /\ IsRaised(metrics[1])
    THEN /\ raised' = metrics[1]
         /\ pc' = "raised"
         /\ UNCHANGED mexem_asset_metrics
    ELSE /\ mexem_asset_metrics' = metrics
         /\ pc' = "compared"
         /\ UNCHANGED raised

\* compute_asset_metrics of mexem.py
mexem_compute_asset_metrics ==
    /\ pc = "computed"
    /\ mexem_store_metrics(mexem_metrics_of(mexem_trades_by_symbol,
                                            Len(mexem_trades_by_symbol),
                                            current_prices, realized_summary))
    /\ UNCHANGED <<mexem_trades_by_symbol, loads, called, csv_file, current_prices,
                   sections, trades_by_symbol, realized_summary, deposits,
                   asset_metrics, rows, i, header, out, sym_i, idx, printed>>

\* the cells after the section name of the Trades rows drawn: a header, a
\* header in lower case with other columns, trades with no, a zero and a
\* non-zero commission, a sell, trades whose price or quantity does not
\* coerce, a data row in lower case, a row with another tag, a padded tag
VariantTailPool ==
    { <<in_Header, str_Symbol, str_Quantity, str_TPrice, str_CommFee>>,
      <<str_header, str_Symbol, str_TPrice, str_Quantity>>,
      <<in_Data, in_AAPL, in_10, in_100>>,
      <<in_Data, in_AAPL, in_5, in_110, str_0>>,
      <<in_Data, in_AAPL, in_m10, in_110, str_0>>,
      <<in_Data, in_AAPL, in_10, in_x, str_0>>,
      <<in_Data, in_AAPL, in_x, in_100>>,
      <<in_Data, in_AAPL, in_10, in_100, in_1>>,
      <<in_dataLower, in_MSFT, in_4, in_2p5>>,
      <<in_Total, in_AAPL, in_5, in_100>>,
      <<<<" ", "D", "a", "t", "a", " ">>, in_MSFT, in_4, in_2p5>> }

\* both analyzers constructed on the same inputs; process_trades of main.py
\* is called on the Trades section
InitVariants ==
    \E tails \in SeqsUpTo(VariantTailPool, MaxRows), prices \in PricesPool :
        /\ Len(tails) >= 1
        /\ csv_file = [k \in 1..Len(tails) |-> <<str_Trades>> \o tails[k]]
        /\ current_prices = prices
        /\ sections = grouped(csv_file, Len(csv_file))
        /\ trades_by_symbol = <<>>
        /\ realized_summary = <<>>
        /\ deposits = <<>>
        /\ asset_metrics = <<>>
        /\ pc = "process_trades"
        /\ rows = csv_file
        /\ i = 1
        /\ header = None
        /\ out = <<>>
        /\ sym_i = 0
        /\ idx = 0
        /\ printed = <<>>
        /\ raised = None
        /\ loads = 1
        /\ called = "process_trades"
        /\ mexem_trades_by_symbol = <<>>
        /\ mexem_asset_metrics = <<>>

NextVariants ==
    \/ process_trades_row
    \/ process_trades_return
    \/ mexem_process_trades
    \/ compute_asset_metrics
    \/ mexem_compute_asset_metrics

SpecVariants == InitVariants /\ [][NextVariants]_vars

-----------------------------------------------------------------------------
(* Claims about compute_asset_metrics *)

\* the three numeric fields of a trade, coerced
QuantityOf(trade) == Float(Get(trade, str_Quantity, str_0))
PriceOf(trade) == Float(Get(trade, str_TPrice, str_0))
CommissionOf(trade) == Float(Get(trade, str_CommFee, str_0))

\* the trade is included in the aggregation: its three fields coerce
Coerces(trade) ==
    IsNumber(QuantityOf(trade)) /\ IsNumber(PriceOf(trade)) /\ IsNumber(CommissionOf(trade))

Included(trades) == {j \in DOMAIN trades : Coerces(trades[j])}

\* sums over a set of positions of a trade list, in no particular order
RECURSIVE SumQuantity(_, _)
SumQuantity(trades, S) ==
    IF S = {} THEN Zero
    ELSE LET j == CHOOSE j \in S : TRUE
         IN  Add(QuantityOf(trades[j]), SumQuantity(trades, S \ {j}))

RECURSIVE SumCost(_, _)
SumCost(trades, S) ==
    IF S = {} THEN Zero
    ELSE LET j == CHOOSE j \in S : TRUE
         IN  Add(Sub(Mul(QuantityOf(trades[j]), PriceOf(trades[j])), CommissionOf(trades[j])),
                 SumCost(trades, S \ {j}))

\* the two AAPL trades of the worked example
ExampleTrades ==
    << Trade(in_AAPL, in_10, in_100, in_1), Trade(in_AAPL, in_5, in_110, in_0p5) >>

\* C4: for every symbol, total_quantity is the signed sum of Quantity over the
\* symbol's included trades and total_cost the signed sum of
\* quantity*price - commission over them; the trades (10 @ 100, fee 1) and
\* (5 @ 110, fee 0.5) give 15 and 1548.5.
C4_SignedSums ==
    pc = "computed" =>
        /\ Len(asset_metrics) = Len(trades_by_symbol)
        /\ \A k \in DOMAIN trades_by_symbol :
               LET trades == trades_by_symbol[k][2]
                   m == asset_metrics[k][2]
               IN  /\ asset_metrics[k][1] = trades_by_symbol[k][1]
                   /\ Item(m, "total_quantity") = SumQuantity(trades, Included(trades))
                   /\ Item(m, "total_cost") = SumCost(trades, Included(trades))
                   /\ trades = ExampleTrades =>
                          /\ Item(m, "total_quantity") = <<15, 1>>
                          /\ Item(m, "total_cost") = <<3097, 2>>

\* C4 witness: the metrics of the worked example, and of a list with a sell
C4_Witness ==
    /\ pc = "computed"
    /\ Get(trades_by_symbol, in_AAPL, <<>>) = ExampleTrades
    /\ Item(Item(asset_metrics, in_AAPL), "total_cost") = <<3097, 2>>

Remove(s, j) == SubSeq(s, 1, j - 1) \o SubSeq(s, j + 1, Len(s))

\* C5: a trade whose Quantity, T. Price or Comm/Fee does not coerce changes
\* neither total: the symbol's totals are those of its list without that
\* trade, whichever field fails and wherever the trade stands in the list.
C5_WholeTradeExcluded ==
    pc = "computed" =>
        \A k \in DOMAIN trades_by_symbol :
            LET trades == trades_by_symbol[k][2]
                m == asset_metrics[k][2]
            IN  \A j \in DOMAIN trades :
                    ~Coerces(trades[j]) =>
                        <<Item(m, "total_quantity"), Item(m, "total_cost")>>
                            = totals(Remove(trades, j), Len(trades) - 1)

\* C5 witness: a trade failing on its price alone is followed by an included
\* trade, and the totals are those of the included trade
C5_Witness ==
    /\ pc = "computed"
    /\ \E k \in DOMAIN trades_by_symbol :
           LET trades == trades_by_symbol[k][2]
           IN  /\ Len(trades) = 2
               /\ IsNumber(QuantityOf(trades[1]))
               /\ Truthy(QuantityOf(trades[1]))
               /\ ~IsNumber(PriceOf(trades[1]))
               /\ IsNumber(CommissionOf(trades[1]))
               /\ Coerces(trades[2])
               /\ Item(asset_metrics[k][2], "total_quantity") = QuantityOf(trades[2])
               /\ Item(asset_metrics[k][2], "total_quantity") # Zero

\* C6: compute_asset_metrics never raises ZeroDivisionError; avg_purchase_price
\* is 0 when total_quantity is 0 and total_cost/total_quantity otherwise;
\* percentage_return is None when total_cost is 0 and absolute_pl/total_cost*100
\* otherwise.
C6_NoDivisionByZero ==
    /\ raised # ZeroDivisionError
    /\ pc # "raised"
    /\ pc = "computed" =>
           \A k \in DOMAIN asset_metrics :
               LET m == asset_metrics[k][2]
                   tq == Item(m, "total_quantity")
                   tc == Item(m, "total_cost")
                   avg == Item(m, "avg_purchase_price")
                   pl == Item(m, "absolute_pl")
                   pct == Item(m, "percentage_return")
               IN  /\ tq[1] = 0 => avg = Zero
                   /\ tq[1] # 0 => IsNumber(avg) /\ Mul(avg, tq) = tc
                   /\ tc[1] = 0 => pct = None
                   /\ tc[1] # 0 => IsNumber(pct) /\ Mul(pct, tc) = Mul(pl, Hundred)

\* C6 witness: a buy and a sell net to a quantity of zero at a cost that is
\* not zero
C6_Witness ==
    /\ pc = "computed"
    /\ \E k \in DOMAIN trades_by_symbol :
           LET trades == trades_by_symbol[k][2]
               m == asset_metrics[k][2]
           IN  /\ Len(trades) = 2
               /\ Coerces(trades[1]) /\ Coerces(trades[2])
               /\ ~Negative(QuantityOf(trades[1])) /\ Truthy(QuantityOf(trades[1]))
               /\ Negative(QuantityOf(trades[2]))
               /\ Item(m, "total_quantity") = Zero
               /\ Item(m, "total_cost") # Zero
               /\ Item(m, "avg_purchase_price") = Zero
               /\ IsNumber(Item(m, "percentage_return"))

\* C7 as claimed: for every symbol with no entry in the price-override map,
\* current_price equals avg_purchase_price and absolute_pl equals 0.
C7_NoOverrideNoProfit ==
    pc = "computed" =>
        \A k \in DOMAIN asset_metrics :
            ~Has(current_prices, asset_metrics[k][1]) =>
                LET m == asset_metrics[k][2]
                IN  /\ Item(m, "current_price") = Item(m, "avg_purchase_price")
                    /\ Item(m, "absolute_pl") = Zero

\* C7 amended: for every symbol with no entry in the price-override map,
\* current_price equals avg_purchase_price and absolute_pl equals
\* total_quantity * current_price - total_cost, which is -total_cost when
\* total_quantity is 0.
C7_NoOverrideAveragePrice ==
    pc = "computed" =>
        \A k \in DOMAIN asset_metrics :
            ~Has(current_prices, asset_metrics[k][1]) =>
                LET m == asset_metrics[k][2]
                IN  /\ Item(m, "current_price") = Item(m, "avg_purchase_price")
                    /\ Item(m, "absolute_pl")
                           = Sub(Mul(Item(m, "total_quantity"), Item(m, "current_price")),
                                 Item(m, "total_cost"))
                    /\ Item(m, "total_quantity") = Zero =>
                           Item(m, "absolute_pl") = Neg(Item(m, "total_cost"))

\* C7 witness: without override, a buy and a sell of the same quantity leave
\* a profit that is not 0
C7_Witness ==
    /\ pc = "computed"
    /\ \E k \in DOMAIN asset_metrics :
           LET m == asset_metrics[k][2]
               trades == trades_by_symbol[k][2]
           IN  /\ ~Has(current_prices, asset_metrics[k][1])
               /\ Len(trades) = 2
               /\ Coerces(trades[1]) /\ Coerces(trades[2])
               /\ Truthy(QuantityOf(trades[1]))
               /\ Item(m, "total_quantity") = Zero
               /\ Item(m, "current_price") = Zero
               /\ Item(m, "absolute_pl") = <<101, 1>>

\* C8: if either total of the symbol's performance entry does not coerce, both
\* realized_total and unrealized_total are 0; a symbol with no performance
\* entry gets 0 for both; no symbol's metrics are omitted and no error is
\* raised.
C8_PerformanceDefaults ==
    /\ pc # "raised"
    /\ raised = None
    /\ pc = "computed" =>
           /\ Len(asset_metrics) = Len(trades_by_symbol)
           /\ \A k \in DOMAIN trades_by_symbol :
                  LET symbol == trades_by_symbol[k][1]
                      entry == Get(realized_summary, symbol, <<>>)
                      rt == Float(Get(entry, str_RealizedTotal, str_0))
                      ut == Float(Get(entry, str_UnrealizedTotal, str_0))
                      m == Get(asset_metrics, symbol, <<>>)
                  IN  /\ Has(asset_metrics, symbol)
                      /\ (~IsNumber(rt) \/ ~IsNumber(ut) \/ ~Has(realized_summary, symbol))
                             => /\ Item(m, "realized_total") = Zero
                                /\ Item(m, "unrealized_total") = Zero

\* C8 witness: Realized Total coerces and Unrealized Total does not, and
\* another symbol has no performance entry
C8_Witness ==
    /\ pc = "computed"
    /\ Len(asset_metrics) = 2
    /\ \E k \in DOMAIN asset_metrics :
           LET entry == Get(realized_summary, asset_metrics[k][1], <<>>)
           IN  /\ IsNumber(Float(Get(entry, str_RealizedTotal, str_0)))
               /\ Truthy(Float(Get(entry, str_RealizedTotal, str_0)))
               /\ ~IsNumber(Float(Get(entry, str_UnrealizedTotal, str_0)))
               /\ Item(asset_metrics[k][2], "realized_total") = Zero
    /\ \E k \in DOMAIN asset_metrics : ~Has(realized_summary, asset_metrics[k][1])

-----------------------------------------------------------------------------
(* Claims about compute_transaction_metrics and display_metrics *)

\* the trade a printed transaction <<symbol, idx, tx>> was computed from
TradeOf(entry) == Get(trades_by_symbol, entry[1], <<>>)[entry[2]]

\* C9: every result of compute_transaction_metrics has cost = quantity *
\* trade_price, current_value = quantity * current_price and profit_loss =
\* current_value - cost; percentage_return is None exactly when cost = 0, is
\* -((current_value - cost) / cost * 100) when cost is not 0 and quantity < 0,
\* and (current_value - cost) / cost * 100 when cost is not 0 and quantity > 0.
C9_TransactionFormulas ==
    \A n \in DOMAIN printed :
        LET tx == printed[n][3]
            current_price == tx_current_price(printed[n][1])
            quantity == Item(tx, "quantity")
            trade_price == Item(tx, "trade_price")
            cost == Item(tx, "cost")
            current_value == Item(tx, "current_value")
            percentage_return == Item(tx, "percentage_return")
        IN  /\ quantity = QuantityOf(TradeOf(printed[n]))
            /\ trade_price = PriceOf(TradeOf(printed[n]))
            /\ cost = Mul(quantity, trade_price)
            /\ current_value = Mul(quantity, current_price)
            /\ Item(tx, "profit_loss") = Sub(current_value, cost)
            /\ percentage_return = None <=> cost = Zero
            /\ cost # Zero /\ Negative(quantity) =>
                   percentage_return
                       = Neg(Mul(Div(Sub(current_value, cost), cost), Hundred))
            /\ cost # Zero /\ ~Negative(quantity) =>
                   percentage_return = Mul(Div(Sub(current_value, cost), cost), Hundred)

\* C9 witness: a sell below the current price is printed with a loss and a
\* negative return, and a buy with a return that is not negated
C9_Witness ==
    /\ \E n \in DOMAIN printed :
           /\ Negative(Item(printed[n][3], "quantity"))
           /\ Negative(Item(printed[n][3], "profit_loss"))
           /\ IsNumber(Item(printed[n][3], "percentage_return"))
           /\ Negative(Item(printed[n][3], "percentage_return"))
    /\ \E n \in DOMAIN printed :
           /\ ~Negative(Item(printed[n][3], "quantity"))
           /\ IsNumber(Item(printed[n][3], "percentage_return"))
           /\ Truthy(Item(printed[n][3], "percentage_return"))
           /\ ~Negative(Item(printed[n][3], "percentage_return"))

\* Quantity or T. Price of the trade does not coerce
FailsCoercion(trade) == ~IsNumber(QuantityOf(trade)) \/ ~IsNumber(PriceOf(trade))

\* the transaction loop has gone past trade j of the symbol at position s
Passed(s, j) == s < sym_i \/ (s = sym_i /\ pc \in {"tx", "raised"} /\ j < idx)

IsPrinted(symbol, j) ==
    \E n \in DOMAIN printed : printed[n][1] = symbol /\ printed[n][2] = j

\* the trade the loop of display_metrics is at
AtTrade == pc = "tx" /\ idx <= Len(trades_by_symbol[sym_i][2])

\* C10: compute_transaction_metrics returns None whenever Quantity or T. Price
\* of the trade does not coerce, never a record; display_metrics prints nothing
\* for such a trade and goes on to the next trade of the symbol, so that of the
\* trades the loop has passed exactly those that coerce are printed.
C10_SkipsAndContinues ==
    /\ [](\A s \in DOMAIN trades_by_symbol :
              \A j \in DOMAIN trades_by_symbol[s][2] :
                  LET symbol == trades_by_symbol[s][1]
                      trade == trades_by_symbol[s][2][j]
                  IN  /\ FailsCoercion(trade) =>
                             /\ compute_transaction_metrics(
                                    trade, tx_current_price(symbol)) = None
                             /\ ~IsPrinted(symbol, j)
                      /\ Passed(s, j) /\ ~FailsCoercion(trade) => IsPrinted(symbol, j))
    /\ [][AtTrade /\ FailsCoercion(trades_by_symbol[sym_i][2][idx]) =>
              /\ pc' = "tx"
              /\ idx' = idx + 1
              /\ printed' = printed
              /\ UNCHANGED <<sym_i, raised>>]_vars

\* C10 witness: the first trade of a symbol does not coerce and was skipped,
\* and the second has been printed
C10_Witness ==
    \E s \in DOMAIN trades_by_symbol :
        /\ Len(trades_by_symbol[s][2]) >= 2
        /\ FailsCoercion(trades_by_symbol[s][2][1])
        /\ ~IsPrinted(trades_by_symbol[s][1], 1)
        /\ IsPrinted(trades_by_symbol[s][1], 2)

\* the trade with its Comm/Fee replaced by the numeric string "1"
WithNumericFee(trade) == Put(trade, str_CommFee, in_1)

\* C11 as claimed: when Quantity and T. Price are numeric and Comm/Fee is not,
\* compute_transaction_metrics returns a result with commission = 0 whose
\* cost, current_value, profit_loss and percentage_return are those of the
\* same trade with a numeric commission.
C11_CommissionDefaultsToZero ==
    \A s \in DOMAIN trades_by_symbol :
        \A j \in DOMAIN trades_by_symbol[s][2] :
            LET trade == trades_by_symbol[s][2][j]
                price == tx_current_price(trades_by_symbol[s][1])
                tx == compute_transaction_metrics(trade, price)
                same == compute_transaction_metrics(WithNumericFee(trade), price)
            IN  ~FailsCoercion(trade) /\ ~IsNumber(CommissionOf(trade)) =>
                    /\ Len(tx) = 7
                    /\ Item(tx, "commission") = Zero
                    /\ \A key \in {"cost", "current_value", "profit_loss",
                                   "percentage_return"} :
                           Item(tx, key) = Item(same, key)

-----------------------------------------------------------------------------
(* Claims about load_and_process *)

\* C12 as claimed: whatever the rows of the file, load_and_process raises
\* nothing, and once it is through asset_metrics maps the symbols of
\* trades_by_symbol to their metrics.
C12_LoadNeverRaises ==
    /\ raised = None
    /\ pc # "raised"
    /\ pc = "computed" => Keys(asset_metrics) = Keys(trades_by_symbol)

-----------------------------------------------------------------------------
(* Further claims about the section extractors *)

\* C13 as claimed: in each of the three extractors a row with fewer than 3
\* cells is skipped outright: the step on it emits no record, leaves the
\* active field-name list as it is and goes on to the next row.
C13_ShortRowSkipped ==
    [][InLoop /\ Len(rows[i]) < 3 =>
           /\ header' = header
           /\ out' = out
           /\ i' = i + 1
           /\ pc' = pc
           /\ raised' = None]_vars

\* process_trades has returned
TradesExtracted == pc = "returned" /\ called = "process_trades"

\* the number of trades held in trades_by_symbol over all symbols
RECURSIVE TradeCount(_, _)
TradeCount(tbs, n) == IF n = 0 THEN 0 ELSE TradeCount(tbs, n - 1) + Len(tbs[n][2])

DataRows == {k \in DOMAIN rows : DataTag(rows[k])}

\* C14 as claimed: the number of trades in trades_by_symbol never exceeds the
\* number of data-tag rows of the section, and equals it whenever every
\* data-tag row is preceded in the section by a header-tag row.
C14_CountEqualsDataRows ==
    TradesExtracted =>
        /\ TradeCount(trades_by_symbol, Len(trades_by_symbol)) <= Cardinality(DataRows)
        /\ (\A k \in DataRows : \E j \in 1..(k - 1) : HeaderTag(rows[j]))
               => TradeCount(trades_by_symbol, Len(trades_by_symbol))
                      = Cardinality(DataRows)

\* the header-tag rows of at least 3 cells before row k of the section
HeadersBefore(k) == {j \in 1..(k - 1) : HeaderTag(rows[j]) /\ Len(rows[j]) >= 3}
HeaderBefore(k) == rows[CHOOSE j \in HeadersBefore(k) : \A l \in HeadersBefore(k) : l <= j]

\* the positions at which the header row names Symbol and the row has a cell
SymbolColumns(hrow, row) ==
    {j \in 1..Min(Len(hrow) - 2, Len(row) - 2) : FieldName(hrow, j) = str_Symbol}

\* the data-tag rows of at least 3 cells that follow a header and have a
\* non-blank cell in the last Symbol column of the most recent header
GroupedRows ==
    {k \in DataRows :
        /\ Len(rows[k]) >= 3
        /\ HeadersBefore(k) # {}
        /\ SymbolColumns(HeaderBefore(k), rows[k]) # {}
        /\ \E j \in SymbolColumns(HeaderBefore(k), rows[k]) :
               /\ \A l \in SymbolColumns(HeaderBefore(k), rows[k]) : l <= j
               /\ Strip(rows[k][j + 2]) # <<>>}

\* C14 amended: the number of trades in trades_by_symbol never exceeds the
\* number of data-tag rows of the section, and equals the number of data-tag
\* rows of at least 3 cells that follow a header-tag row of at least 3 cells
\* and have a non-blank cell in the Symbol column of the most recent such
\* header.
C14_CountEqualsGroupedRows ==
    TradesExtracted =>
        /\ TradeCount(trades_by_symbol, Len(trades_by_symbol)) <= Cardinality(DataRows)
        /\ TradeCount(trades_by_symbol, Len(trades_by_symbol)) = Cardinality(GroupedRows)

\* C14 witness: of two data-tag rows that follow a header-tag row, one is
\* held in trades_by_symbol and the other, having no Symbol, is not
C14_Witness ==
    /\ TradesExtracted
    /\ Cardinality(DataRows) = 2
    /\ \A k \in DataRows : Len(rows[k]) >= 3 /\ HeadersBefore(k) # {}
    /\ TradeCount(trades_by_symbol, Len(trades_by_symbol)) = 1

\* the symbol process_trades groups the trade of row k under
SymbolAt(k) ==
    LET columns == SymbolColumns(HeaderBefore(k), rows[k])
    IN  Strip(rows[k][(CHOOSE j \in columns : \A l \in columns : l <= j) + 2])

\* the rows of the section whose trade is grouped under the symbol
RowsOf(symbol) == {k \in GroupedRows : SymbolAt(k) = symbol}

First(S) == CHOOSE k \in S : \A j \in S : k <= j

\* the keys of a dict in their order
KeysInOrder(d) == [k \in DOMAIN d |-> d[k][1]]

\* C15: the keys of trades_by_symbol stand in the order of the symbols' first
\* grouped rows of the Trades section; each symbol's list holds the trades of
\* its rows in row order; the keys of asset_metrics stand in the order of the
\* keys of trades_by_symbol.
C15_FirstSeenOrder ==
    /\ TradesExtracted =>
           /\ Keys(trades_by_symbol) = {SymbolAt(k) : k \in GroupedRows}
           /\ \A a, b \in DOMAIN trades_by_symbol :
                  a < b => First(RowsOf(trades_by_symbol[a][1]))
                               < First(RowsOf(trades_by_symbol[b][1]))
           /\ \A a \in DOMAIN trades_by_symbol :
                  LET mine == RowsOf(trades_by_symbol[a][1])
                  IN  /\ Len(trades_by_symbol[a][2]) = Cardinality(mine)
                      /\ \A k \in mine :
                             trades_by_symbol[a][2][Cardinality({j \in mine : j <= k})]
                                 = record_of(header_of(HeaderBefore(k)), rows[k])
    /\ pc = "computed" => KeysInOrder(asset_metrics) = KeysInOrder(trades_by_symbol)

\* C15 witness: MSFT is traded before AAPL and again after it, and both
\* mappings list MSFT first
C15_Witness ==
    /\ pc = "computed"
    /\ csv_file = <<row_TradesHeader, row_TradesMSFT, row_TradesAAPL, row_TradesMSFT>>
    /\ KeysInOrder(trades_by_symbol) = <<in_MSFT, in_AAPL>>
    /\ KeysInOrder(asset_metrics) = <<in_MSFT, in_AAPL>>
    /\ Len(trades_by_symbol[1][2]) = 2

\* the performance totals of every symbol of asset_metrics are 0
NoPerformance ==
    \A k \in DOMAIN asset_metrics :
        /\ Item(asset_metrics[k][2], "realized_total") = Zero
        /\ Item(asset_metrics[k][2], "unrealized_total") = Zero

\* C17 as claimed: whatever the analyzer did before, once load_and_process is
\* through on a file with no Trades section asset_metrics is empty, and on a
\* file with no performance-summary section every symbol's realized_total and
\* unrealized_total are 0.
C17_MissingSectionNoData ==
    pc = "computed" =>
        /\ ~Has(sections, str_Trades) => asset_metrics = <<>>
        /\ ~Has(sections, str_Realized) => NoPerformance

\* C17 amended: the same, for the first load_and_process of a freshly
\* constructed analyzer.
C17_MissingSectionNoDataAtFirst ==
    pc = "computed" /\ loads = 1 =>
        /\ ~Has(sections, str_Trades) => asset_metrics = <<>>
        /\ ~Has(sections, str_Realized) => NoPerformance

\* C17 witness: the first load_and_process is through on a file with trades
\* and no performance-summary section
C17_Witness ==
    /\ pc = "computed"
    /\ loads = 1
    /\ Has(sections, str_Trades)
    /\ ~Has(sections, str_Realized)
    /\ asset_metrics # <<>>
    /\ NoPerformance

\* C18: whenever compute_asset_metrics is through, asset_metrics is what one
\* call yields on the current trades_by_symbol, current_prices and
\* realized_summary, with no symbol besides those of trades_by_symbol, however
\* often it was called before; a call changes none of sections,
\* trades_by_symbol, realized_summary, deposits and current_prices.
C18_RecomputedInFull ==
    /\ [](pc = "computed" =>
              /\ asset_metrics = metrics_of(trades_by_symbol, Len(trades_by_symbol),
                                            current_prices, realized_summary)
              /\ Keys(asset_metrics) = Keys(trades_by_symbol))
    /\ [][(pc \in {"loaded", "computed"} /\ pc' = "computed") =>
              UNCHANGED <<sections, trades_by_symbol, realized_summary, deposits,
                          current_prices>>]_vars

\* C18 witness: the second load_and_process has computed the metrics of MSFT
\* alone on an analyzer that had computed those of AAPL
C18_Witness ==
    /\ pc = "computed"
    /\ loads = 2
    /\ Has(realized_summary, in_AAPL)
    /\ KeysInOrder(trades_by_symbol) = <<in_MSFT>>
    /\ KeysInOrder(asset_metrics) = <<in_MSFT>>

-----------------------------------------------------------------------------
(* The two variants of the core *)

\* the tag of the row, trimmed, is exactly Header or Data, or is neither up to
\* case
TagInDomain(row) ==
    \/ Strip(row[2]) \in {mexem_Header, mexem_Data}
    \/ Lower(Strip(row[2])) \notin {str_header, str_data}

\* the Quantity of the trade is positive or does not coerce, its Comm/Fee is
\* absent or zero
TradeInDomain(trade) ==
    /\ IsNumber(QuantityOf(trade)) => QuantityOf(trade)[1] > 0
    /\ Has(trade, str_CommFee) => CommissionOf(trade) = Zero

\* the rows given to process_trades and the trades it emitted are in the
\* common domain of the two variants
InCommonDomain ==
    /\ \A k \in DOMAIN rows : Len(rows[k]) >= 2 => TagInDomain(rows[k])
    /\ \A k \in DOMAIN out : TradeInDomain(out[k])

\* C19: on rows whose tags are exactly Header or Data or neither up to case,
\* and trades whose Quantity is positive or non-numeric and whose Comm/Fee is
\* absent or zero, process_trades of main.py and of mexem.py yield the same
\* trades_by_symbol and compute_asset_metrics of both the same asset_metrics.
C19_VariantsAgree ==
    InCommonDomain =>
        /\ pc # "raised"
        /\ pc \in {"loaded", "computed", "compared"} =>
               mexem_trades_by_symbol = trades_by_symbol
        /\ pc = "compared" => mexem_asset_metrics = asset_metrics

\* C19 witness: both variants have computed the metrics of a symbol with two
\* trades, one of which has a price that does not coerce
C19_Witness ==
    /\ pc = "compared"
    /\ InCommonDomain
    /\ Len(out) = 2
    /\ \E k \in DOMAIN out : IsNumber(QuantityOf(out[k])) /\ ~IsNumber(PriceOf(out[k]))
    /\ \E k \in DOMAIN asset_metrics :
           /\ Truthy(Item(asset_metrics[k][2], "total_quantity"))
           /\ mexem_asset_metrics[k] = asset_metrics[k]

-----------------------------------------------------------------------------
(* The trade loop of compute_asset_metrics in binary64 *)

\* Python's float is IEEE 754 binary64: a result is the exact result rounded
\* to 53 significant bits, ties to even.  The values modelled here are the
\* integer-valued ones, <<sign, magnitude>> with the magnitude a natural
\* number of any size: the little-endian sequence of its digits in base 2^15,
\* without leading zeros (<<>> is 0).  Sums and products of such values are
\* integers, so their rounding is computed exactly.  Zero carries the sign 1:
\* 0.0 == -0.0 in Python.

\* significant bits of a binary64 value
Mantissa == 53

Base == 2^15

\* number of bits of a digit
RECURSIVE bit_length(_)
bit_length(d) == IF d = 0 THEN 0 ELSE 1 + bit_length(d \div 2)

DigitBits == bit_length(Base - 1)

digit(a, k) == IF k <= Len(a) THEN a[k] ELSE 0

RECURSIVE nat_norm(_)
nat_norm(a) ==
    IF a = <<>> \/ a[Len(a)] # 0 THEN a ELSE nat_norm(SubSeq(a, 1, Len(a) - 1))

\* the digits of an integer n >= 0
RECURSIVE nat_of(_)
nat_of(n) == IF n = 0 THEN <<>> ELSE <<n % Base>> \o nat_of(n \div Base)

RECURSIVE nat_add_from(_, _, _, _)
nat_add_from(a, b, k, carry) ==
    IF k > Len(a) /\ k > Len(b) THEN nat_of(carry)
    ELSE <<(digit(a, k) + digit(b, k) + carry) % Base>>
         \o nat_add_from(a, b, k + 1, (digit(a, k) + digit(b, k) + carry) \div Base)

\* exact a + b
nat_add(a, b) == nat_add_from(a, b, 1, 0)

RECURSIVE nat_sub_from(_, _, _, _)
nat_sub_from(a, b, k, borrow) ==
    IF k > Len(a) THEN <<>>
    ELSE <<(digit(a, k) - digit(b, k) - borrow) % Base>>
         \o nat_sub_from(a, b, k + 1, IF digit(a, k) - digit(b, k) - borrow < 0 THEN 1 ELSE 0)

\* exact a - b, for a >= b
nat_sub(a, b) == nat_norm(nat_sub_from(a, b, 1, 0))

\* a < b
nat_less(a, b) ==
    \/ Len(a) < Len(b)
    \/ /\ Len(a) = Len(b)
       /\ \E k \in DOMAIN a : a[k] < b[k] /\ \A j \in (k + 1)..Len(a) : a[j] = b[j]

\* exact a * d for one digit d
RECURSIVE nat_mul_digit_from(_, _, _, _)
nat_mul_digit_from(a, d, k, carry) ==
    IF k > Len(a) THEN nat_of(carry)
    ELSE <<(a[k] * d + carry) % Base>>
         \o nat_mul_digit_from(a, d, k + 1, (a[k] * d + carry) \div Base)

nat_mul_digit(a, d) == nat_norm(nat_mul_digit_from(a, d, 1, 0))

\* Base * a
nat_shift(a) == IF a = <<>> THEN <<>> ELSE <<0>> \o a

\* exact a * b
RECURSIVE nat_mul(_, _)
nat_mul(a, b) ==
    IF b = <<>> THEN <<>>
    ELSE nat_add(nat_mul_digit(a, Head(b)), nat_shift(nat_mul(a, Tail(b))))

\* number of bits of a
nat_bits(a) == IF a = <<>> THEN 0 ELSE DigitBits * (Len(a) - 1) + bit_length(a[Len(a)])

\* bit k of a, the lowest being bit 1
bit_at(a, k) == (digit(a, (k - 1) \div DigitBits + 1) \div 2^((k - 1) % DigitBits)) % 2

\* a with its lowest `low` bits cleared
nat_floor(a, low) ==
    [j \in 1..Len(a) |->
        IF j * DigitBits <= low THEN 0
        ELSE IF (j - 1) * DigitBits >= low THEN a[j]
        ELSE (a[j] \div 2^(low - (j - 1) * DigitBits)) * 2^(low - (j - 1) * DigitBits)]

\* 2^low
nat_pow2(low) ==
    [j \in 1..(low \div DigitBits + 1) |->
        IF j = low \div DigitBits + 1 THEN 2^(low % DigitBits) ELSE 0]

\* whether a, which has `low` bits beyond the 53rd, is rounded away from zero:
\* the first dropped bit is 1 and either a later dropped bit or the last kept
\* bit is 1
rounds_up(a, low) ==
    /\ bit_at(a, low) = 1
    /\ \/ bit_at(a, low + 1) = 1
       \/ \E k \in 1..(low - 1) : bit_at(a, k) = 1

\* the integer nearest to a with 53 significant bits, a tie going to the one
\* whose last significant bit is 0
round_to_double(a) ==
    IF nat_bits(a) <= Mantissa THEN a
    ELSE IF rounds_up(a, nat_bits(a) - Mantissa)
    THEN nat_add(nat_floor(a, nat_bits(a) - Mantissa), nat_pow2(nat_bits(a) - Mantissa))
    ELSE nat_floor(a, nat_bits(a) - Mantissa)

\* a binary64 value from a sign and an exact magnitude
float64(sign, a) == <<IF a = <<>> THEN 1 ELSE sign, round_to_double(a)>>

float64_zero == <<1, <<>>>>

\* x + y
float64_add(x, y) ==
    IF x[1] = y[1] THEN float64(x[1], nat_add(x[2], y[2]))
    ELSE IF nat_less(x[2], y[2]) THEN float64(y[1], nat_sub(y[2], x[2]))
    ELSE float64(x[1], nat_sub(x[2], y[2]))

\* x - y
float64_sub(x, y) == float64_add(x, <<IF y[2] = <<>> THEN 1 ELSE -y[1], y[2]>>)

\* x * y
float64_mul(x, y) == float64(x[1] * y[1], nat_mul(x[2], y[2]))

\* the value of the first n decimal digits of s, four digits at a time
RECURSIVE nat_of_decimal(_, _)
nat_of_decimal(s, n) ==
    IF n <= 4 THEN nat_of(DigitsValue(SubSeq(s, 1, n)))
    ELSE nat_add(nat_mul_digit(nat_of_decimal(s, n - 4), 10^4),
                 nat_of(DigitsValue(SubSeq(s, n - 3, n))))

\* float(s) for s an optionally signed decimal integer literal, and the
\* ValueError of a string that is no numeric literal; literals with a fraction
\* or an exponent are not drawn in SpecFloat
float64_of_body(body, sign) ==
    IF body # <<>> /\ \A k \in DOMAIN body : IsDigit(body[k])
    THEN float64(sign, nat_of_decimal(body, Len(body)))
    ELSE ValueError

float64_of_stripped(t) ==
    IF t # <<>> /\ t[1] = "-" THEN float64_of_body(Tail(t), -1)
    ELSE IF t # <<>> /\ t[1] = "+" THEN float64_of_body(Tail(t), 1)
    ELSE float64_of_body(t, 1)

float64_of(s) == float64_of_stripped(Strip(s))


\* mutant of float64_add_trade: the cost of a trade is taken on the running
\* quantity
float64_add_trade_running(acc, qty, price, commission) ==
    IF ~IsNumber(qty) \/ ~IsNumber(price) \/ ~IsNumber(commission)
    THEN acc
    ELSE <<float64_add(acc[1], qty),
           float64_add(acc[2], float64_sub(float64_mul(float64_add(acc[1], qty), price), commission))>>

\* total_qty += qty; total_cost += qty * price - commission, each operation
\* rounded; reached only when none of the three coercions raised ValueError
float64_add_trade(acc, qty, price, commission) ==
    IF ~IsNumber(qty) \/ ~IsNumber(price) \/ ~IsNumber(commission)
    THEN acc
    ELSE <<float64_add(acc[1], qty),
           float64_add(acc[2], float64_sub(float64_mul(qty, price), commission))>>

\* the try block of the trade loop
float64_accumulate(acc, trade) ==
    float64_add_trade(acc,
                      float64_of(Get(trade, str_Quantity, str_0)),
                      float64_of(Get(trade, str_TPrice, str_0)),
                      float64_of(Get(trade, str_CommFee, str_0)))

\* <<total_qty, total_cost>> after the first n trades, from 0.0 and 0.0
RECURSIVE float64_totals(_, _)
float64_totals(trades, n) ==
    IF n = 0 THEN <<float64_zero, float64_zero>>
    ELSE float64_accumulate(float64_totals(trades, n - 1), trades[n])

\* the trade loop run for every symbol: out holds, symbol by symbol, the
\* locals total_qty and total_cost at the end of the loop
float64_trade_loop ==
    /\ pc = "loaded"
    /\ out' = [k \in DOMAIN trades_by_symbol |->
                  <<trades_by_symbol[k][1],
                    float64_totals(trades_by_symbol[k][2], Len(trades_by_symbol[k][2]))>>]
    /\ pc' = "totalled"
    /\ UNCHANGED <<mexem, loads, called, csv_file, current_prices, sections,
                   trades_by_symbol, realized_summary, deposits, asset_metrics,
                   rows, i, header, sym_i, idx, printed, raised>>

in_9007199254740992 == <<"9", "0", "0", "7", "1", "9", "9", "2", "5", "4", "7", "4", "0", "9", "9", "2">>
in_m9007199254740992 == <<"-">> \o in_9007199254740992

\* a trade record under the header Symbol, Quantity, T. Price
TradeNoFee(symbol, qty, price) ==
    << <<str_Symbol, symbol>>, <<str_Quantity, qty>>, <<str_TPrice, price>> >>

\* the trades drawn for AAPL: a buy and a sell of 2^53 units at 1, a buy of
\* one unit at 1, a buy of 2 at 4 with a fee of 1, and a trade whose price
\* does not coerce
FloatTradePool ==
    { TradeNoFee(in_AAPL, in_9007199254740992, in_1),
      TradeNoFee(in_AAPL, in_m9007199254740992, in_1),
      TradeNoFee(in_AAPL, in_1, in_1),
      Trade(in_AAPL, in_2, in_4, in_1),
      TradeNoFee(in_AAPL, in_1, in_abc) }

\* longest trade list drawn for the binary64 loop
MaxFloatTrades == 3

InitFloat ==
    /\ \E trades \in SeqsUpTo(FloatTradePool, MaxFloatTrades) :
           /\ Len(trades) >= 1
           /\ csv_file = <<>>
           /\ current_prices = <<>>
           /\ sections = <<>>
           /\ trades_by_symbol = << <<in_AAPL, trades>> >>
           /\ realized_summary = <<>>
           /\ deposits = <<>>
           /\ asset_metrics = <<>>
    /\ NoLocals
    /\ pc = "loaded"

NextFloat == float64_trade_loop

SpecFloat == InitFloat /\ [][NextFloat]_vars

-----------------------------------------------------------------------------
(* Order of the trades *)

\* the list with its trades in the order p
Permuted(trades, p) == [k \in DOMAIN trades |-> trades[p[k]]]

\* C16: for every symbol and every permutation of its trade list, lists with
\* trades excluded by coercion failure included, the loop yields identical
\* total_quantity and total_cost.
C16_OrderIndependent ==
    pc = "totalled" =>
        \A k \in DOMAIN trades_by_symbol :
            LET trades == trades_by_symbol[k][2]
            IN  \A p \in Permutations(DOMAIN trades) :
                    float64_totals(Permuted(trades, p), Len(trades)) = out[k][2]


\* what a trade alone adds to <<total_qty, total_cost>>: nothing if one of its
\* fields does not coerce
Contribution(trade) == float64_accumulate(<<float64_zero, float64_zero>>, trade)

\* the exact sum of the magnitudes of the trades' contributions to total j
RECURSIVE SumOfMagnitudes(_, _, _)
SumOfMagnitudes(trades, n, j) ==
    IF n = 0 THEN <<>>
    ELSE nat_add(SumOfMagnitudes(trades, n - 1, j), Contribution(trades[n])[j][2])

\* no sum of contributions, in any order, has more than 53 bits, so that no
\* addition of the loop rounds
NoRounding(trades) ==
    /\ nat_bits(SumOfMagnitudes(trades, Len(trades), 1)) <= Mantissa
    /\ nat_bits(SumOfMagnitudes(trades, Len(trades), 2)) <= Mantissa

\* C16 (amended): for every symbol whose trades' contributions add up without
\* rounding in binary64, every permutation of its trade list, lists with
\* trades excluded by coercion failure included, yields identical
\* total_quantity and total_cost.
C16_OrderIndependentWhenExact ==
    pc = "totalled" =>
        \A k \in DOMAIN trades_by_symbol :
            LET trades == trades_by_symbol[k][2]
            IN  NoRounding(trades) =>
                    \A p \in Permutations(DOMAIN trades) :
                        float64_totals(Permuted(trades, p), Len(trades)) = out[k][2]

\* C16 witness: three trades in an order that is not the only one, one of
\* them excluded, totalled without rounding to 3 units at a cost of 8
C16_Witness ==
    /\ pc = "totalled"
    /\ LET trades == trades_by_symbol[1][2]
       IN  /\ Len(trades) = 3
           /\ trades[1] # trades[2] /\ trades[2] # trades[3] /\ trades[1] # trades[3]
           /\ NoRounding(trades)
           /\ \E n \in DOMAIN trades : ~IsNumber(float64_of(Get(trades[n], str_TPrice, str_0)))
           /\ out[1][2] = << <<1, nat_of(3)>>, <<1, nat_of(8)>> >>

=============================================================================
